---- MODULE Spec2Model ----
(***************************************************************************)
(* Model of SlotGameSimulator (src/main.py): reel validation, grid         *)
(* sampling, the per-row winning-sequence scan with wild and premium       *)
(* symbols, the per-grid "highest prize per symbol" reduction and the      *)
(* statistics of run_simulation; and of the JSON formatting helpers         *)
(* (src/formatter_python.py).                                              *)
(*                                                                         *)
(* Python dicts are modelled as sequences of [key, value] records in       *)
(* insertion order (the order dict.items() / dict.values() iterate in);    *)
(* Python lists are modelled as sequences.                                 *)
(***************************************************************************)
EXTENDS Integers, Sequences, FiniteSets, TLC

\* ------------------------------------------------------------------ bounds
MaxLen == 8         \* longest row fed to the scan
MaxReels == 3       \* most reels (columns) of a configuration
MaxStripLen == 3    \* longest reel strip of a configuration
GridCols == 5       \* row length of the grids handed to _calculate_prizes
MaxSpins == 2       \* largest num_spins handed to run_simulation
MaxJsonLen == 4     \* longest text handed to the JSON helpers

\* ------------------------------------------------------- program constants
WILD == 0
PREMIUM_SYMBOLS == {12, 13}
rows == 3
None == -1

\* Plain symbols are 1..11 in the program; the scan only compares symbols for
\* equality and for membership in the two classes above, so two of them stand
\* for all.
PlainSymbols == {1, 2}
Symbols == {WILD} \cup PlainSymbols \cup PREMIUM_SYMBOLS

\* Reel strips of the configurations explored: a block of plain symbol 1
\* followed by a block of premium symbol 12, of every length up to
\* MaxStripLen (so strips shorter than the window are included).
Strips ==
    UNION { { [k \in 1..n |-> IF k <= a THEN 1 ELSE 12] : a \in 0..n } : n \in 0..MaxStripLen }

RECURSIVE SeqsUpTo(_, _)
SeqsUpTo(S, n) ==
    IF n = 0 THEN { <<>> }
    ELSE LET shorter == SeqsUpTo(S, n - 1)
         IN  shorter \cup { Append(q, x) : q \in { t \in shorter : Len(t) = n - 1 }, x \in S }

ReelConfigs == SeqsUpTo(Strips, MaxReels)
GridRows == { r \in SeqsUpTo(Symbols, GridCols) : Len(r) = GridCols }

VARIABLES
    pc,               \* which operation is in progress / has finished
    reels,            \* the reels argument of __init__
    error,            \* index named by the ValueError of __init__, or None
    stop_positions,   \* spin: the stop position drawn for each reel
    result_grid,      \* spin: the grid returned
    prizes,           \* spin: the prize list returned
    row_results,      \* _calculate_prizes: what _find_sequences returned per row
    all_prizes,       \* _calculate_prizes: its local list `prizes`
    max_prizes,       \* _calculate_prizes: its local dict `max_prizes`
    symbols,          \* _find_sequences: the symbols consumed so far
    current_symbol,   \* _find_sequences locals
    current_count,
    wild_count,
    sequences,
    row_prizes,       \* _find_sequences: the list returned
    num_spins,        \* run_simulation: its argument
    iteration,        \* run_simulation: the loop variable of "for _ in range"
    stats,            \* run_simulation: its local dict `stats`
    spin_log,         \* the prize lists the spins of the current call returned
    printed,          \* what the current call has written to standard output
    returned,         \* the record the latest finished run_simulation returned
    json_call,        \* the JSON helper called and its arguments
    json_outcome,     \* how that call ended: value returned or exception raised
    json_written      \* what that call wrote, to the output file and to stdout

vars == <<pc, reels, error, stop_positions, result_grid, prizes, row_results,
          all_prizes, max_prizes, symbols, current_symbol, current_count,
          wild_count, sequences, row_prizes, num_spins, iteration, stats,
          spin_log, printed, returned, json_call, json_outcome, json_written>>

spinVars == <<reels, error, stop_positions, result_grid, prizes>>
prizeVars == <<row_results, all_prizes, max_prizes>>
scanVars == <<symbols, current_symbol, current_count, wild_count, sequences,
              row_prizes>>
simVars == <<num_spins, iteration, stats, spin_log, returned>>
jsonVars == <<json_call, json_outcome, json_written>>

\* The statistics record run_simulation starts from.
FreshStats ==
    [total_spins |-> 0, total_prizes |-> 0, prize_combinations |-> <<>>,
     amount_counts |-> <<>>, symbol_counts |-> <<>>]

\* No run_simulation call and no JSON helper call has been made.
NoSimulation ==
    /\ num_spins = 0 /\ iteration = 0 /\ stats = FreshStats
    /\ spin_log = <<>> /\ printed = <<>> /\ returned = <<>>

NoJsonCall ==
    /\ json_call = <<>> /\ json_outcome = <<>> /\ json_written = <<>>

\* ------------------------------------------------------------ dict helpers
DictHas(d, k) == \E j \in 1..Len(d) : d[j].key = k

DictGet(d, k) == d[CHOOSE j \in 1..Len(d) : d[j].key = k].value

DictSet(d, k, v) ==
    IF DictHas(d, k)
    THEN [j \in 1..Len(d) |-> IF d[j].key = k THEN [key |-> k, value |-> v] ELSE d[j]]
    ELSE Append(d, [key |-> k, value |-> v])

DictValues(d) == [j \in 1..Len(d) |-> d[j].value]

\* --------------------------------------------------------- _find_sequences
\* Mutant: the recorded count is overwritten by every later run.
UpdateSequencesAlways(seqs, symbol, count) == DictSet(seqs, symbol, count)

UpdateSequences(seqs, symbol, count) ==
    IF ~DictHas(seqs, symbol) \/ count > DictGet(seqs, symbol)
    THEN DictSet(seqs, symbol, count)
    ELSE seqs

\* Mutant: runs of two already qualify.
CloseRunAtTwo(s) ==
    IF s.current_count >= 2 /\ s.current_symbol # None
    THEN UpdateSequences(s.sequences, s.current_symbol, s.current_count)
    ELSE s.sequences

\* The closing rule, identical at the three places a run ends.
CloseRun(s) ==
    IF s.current_count >= 3 /\ s.current_symbol # None
    THEN UpdateSequences(s.sequences, s.current_symbol, s.current_count)
    ELSE s.sequences

ScanStart ==
    [current_symbol |-> None, current_count |-> 0, wild_count |-> 0,
     sequences |-> <<>>]

\* Mutant: a wild extends a premium run too.
WildStepExtendsPremium(s) ==
    [s EXCEPT !.wild_count = @ + 1,
              !.current_count = IF s.current_symbol # None THEN @ + 1 ELSE @]

\* Mutant: a wild is counted before any symbol has opened a run.
WildStepCountsUnset(s) ==
    [s EXCEPT !.wild_count = @ + 1,
              !.current_count = IF s.current_symbol \notin PREMIUM_SYMBOLS THEN @ + 1 ELSE @]

\* Mutant: a wild absorbed into the active run is no longer pending.
WildStepClearsAbsorbed(s) ==
    IF s.current_symbol # None /\ s.current_symbol \notin PREMIUM_SYMBOLS
    THEN [s EXCEPT !.current_count = @ + 1]
    ELSE [s EXCEPT !.wild_count = @ + 1]

\* Mutant: a wild closes the active run.
WildStepClosesRun(s) ==
    [s EXCEPT !.wild_count = @ + 1,
              !.sequences = CloseRun(s),
              !.current_count =
                  IF s.current_symbol # None /\ s.current_symbol \notin PREMIUM_SYMBOLS
                  THEN @ + 1 ELSE @]

WildStep(s) ==
    [s EXCEPT !.wild_count = @ + 1,
              !.current_count =
                  IF s.current_symbol # None /\ s.current_symbol \notin PREMIUM_SYMBOLS
                  THEN @ + 1 ELSE @]

\* Mutant: the wilds pending when a premium run opens stay pending.
PremiumStepKeepsWilds(s, symbol) ==
    IF s.current_symbol # symbol
    THEN [current_symbol |-> symbol, current_count |-> 1, wild_count |-> s.wild_count,
          sequences |-> CloseRun(s)]
    ELSE [s EXCEPT !.current_count = @ + 1]

PremiumStep(s, symbol) ==
    IF s.current_symbol # symbol
    THEN [current_symbol |-> symbol, current_count |-> 1, wild_count |-> 0,
          sequences |-> CloseRun(s)]
    ELSE [s EXCEPT !.current_count = @ + 1]

\* Mutant: a new plain run ignores the pending wilds.
RegularStepNoWilds(s, symbol) ==
    IF s.current_symbol = symbol
    THEN [s EXCEPT !.current_count = @ + 1]
    ELSE [current_symbol |-> symbol, current_count |-> 1,
          wild_count |-> 0, sequences |-> CloseRun(s)]

\* Mutant: every extension of a plain run adds the pending wilds again.
RegularStepReusesWilds(s, symbol) ==
    IF s.current_symbol = symbol
    THEN [s EXCEPT !.current_count = @ + 1 + s.wild_count]
    ELSE [current_symbol |-> symbol, current_count |-> 1 + s.wild_count,
          wild_count |-> 0, sequences |-> CloseRun(s)]

RegularStep(s, symbol) ==
    IF s.current_symbol = symbol
    THEN [s EXCEPT !.current_count = @ + 1]
    ELSE [current_symbol |-> symbol, current_count |-> 1 + s.wild_count,
          wild_count |-> 0, sequences |-> CloseRun(s)]

\* Mutant: a wild is scanned like any plain symbol.
ScanStepWildIsPlain(s, symbol) ==
    IF symbol \in PREMIUM_SYMBOLS THEN PremiumStep(s, symbol)
    ELSE RegularStep(s, symbol)

ScanStep(s, symbol) ==
    IF symbol = WILD THEN WildStep(s)
    ELSE IF symbol \in PREMIUM_SYMBOLS THEN PremiumStep(s, symbol)
    ELSE RegularStep(s, symbol)

RECURSIVE ScanAll(_, _)
ScanAll(row, n) ==
    IF n = 0 THEN ScanStart ELSE ScanStep(ScanAll(row, n - 1), row[n])

ToPrizes(seqs) ==
    [j \in 1..Len(seqs) |-> [symbol |-> seqs[j].key, amount |-> seqs[j].value]]

FindSequences(row) ==
    LET s == ScanAll(row, Len(row))
    IN  ToPrizes(CloseRun(s))

\* -------------------------------------------------------- scan, step by step
ScanState ==
    [current_symbol |-> current_symbol, current_count |-> current_count,
     wild_count |-> wild_count, sequences |-> sequences]

ScanInit ==
    /\ pc = "scan"
    /\ reels = <<>> /\ error = None /\ stop_positions = <<>>
    /\ result_grid = <<>> /\ prizes = <<>>
    /\ row_results = <<>> /\ all_prizes = <<>> /\ max_prizes = <<>>
    /\ symbols = <<>>
    /\ current_symbol = ScanStart.current_symbol
    /\ current_count = ScanStart.current_count
    /\ wild_count = ScanStart.wild_count
    /\ sequences = ScanStart.sequences
    /\ row_prizes = <<>>
    /\ NoSimulation /\ NoJsonCall

\* One iteration of the for loop: the row's next symbol is consumed.
ScanSymbol ==
    /\ pc = "scan"
    /\ Len(symbols) < MaxLen
    /\ \E symbol \in Symbols :
         LET s == ScanStep(ScanState, symbol)
         IN  /\ symbols' = Append(symbols, symbol)
             /\ current_symbol' = s.current_symbol
             /\ current_count' = s.current_count
             /\ wild_count' = s.wild_count
             /\ sequences' = s.sequences
    /\ UNCHANGED <<pc, row_prizes>>
    /\ UNCHANGED spinVars /\ UNCHANGED prizeVars
    /\ UNCHANGED <<simVars, printed, jsonVars>>

\* The row ends here: the final run is closed and the prize list returned.
ScanReturn ==
    /\ pc = "scan"
    /\ sequences' = CloseRun(ScanState)
    /\ row_prizes' = ToPrizes(sequences')
    /\ pc' = "returned"
    /\ UNCHANGED <<symbols, current_symbol, current_count, wild_count>>
    /\ UNCHANGED spinVars /\ UNCHANGED prizeVars
    /\ UNCHANGED <<simVars, printed, jsonVars>>

ScanNext == ScanSymbol \/ ScanReturn

ScanSpec == ScanInit /\ [][ScanNext]_vars

\* ------------------------------------------------------- _calculate_prizes
RECURSIVE CollectPrizes(_, _)
CollectPrizes(grid, n) ==
    IF n = 0 THEN <<>> ELSE CollectPrizes(grid, n - 1) \o FindSequences(grid[n])

\* Mutant: the prize seen last replaces the one kept, whatever its amount.
KeepPrizeLast(maxp, prize) == DictSet(maxp, prize.symbol, prize)

KeepPrize(maxp, prize) ==
    IF ~DictHas(maxp, prize.symbol) \/ prize.amount > DictGet(maxp, prize.symbol).amount
    THEN DictSet(maxp, prize.symbol, prize)
    ELSE maxp

RECURSIVE MaxPrizes(_, _)
MaxPrizes(plist, n) ==
    IF n = 0 THEN <<>> ELSE KeepPrize(MaxPrizes(plist, n - 1), plist[n])

CalculatePrizes(grid) ==
    LET plist == CollectPrizes(grid, Len(grid))
    IN  DictValues(MaxPrizes(plist, Len(plist)))

\* _calculate_prizes reads a row only through _find_sequences, so the rows of
\* the grid are represented by what _find_sequences returns for them.
RowResults == { FindSequences(r) : r \in GridRows }

PrizeInit ==
    /\ pc = "rows"
    /\ reels = <<>> /\ error = None /\ stop_positions = <<>>
    /\ result_grid = <<>> /\ prizes = <<>>
    /\ row_results = <<>> /\ all_prizes = <<>> /\ max_prizes = <<>>
    /\ symbols = <<>>
    /\ current_symbol = None /\ current_count = 0 /\ wild_count = 0
    /\ sequences = <<>> /\ row_prizes = <<>>
    /\ NoSimulation /\ NoJsonCall

\* One iteration of "for row in grid".
CheckRow ==
    /\ pc = "rows"
    /\ Len(row_results) < rows
    /\ \E found \in RowResults :
         /\ row_results' = Append(row_results, found)
         /\ all_prizes' = all_prizes \o found
    /\ UNCHANGED <<pc, max_prizes>>
    /\ UNCHANGED spinVars /\ UNCHANGED scanVars
    /\ UNCHANGED <<simVars, printed, jsonVars>>

\* The loop over the collected prizes and the return.
KeepHighest ==
    /\ pc = "rows"
    /\ Len(row_results) = rows
    /\ max_prizes' = MaxPrizes(all_prizes, Len(all_prizes))
    /\ prizes' = DictValues(max_prizes')
    /\ pc' = "resolved"
    /\ UNCHANGED <<row_results, all_prizes>>
    /\ UNCHANGED <<reels, error, stop_positions, result_grid>>
    /\ UNCHANGED scanVars
    /\ UNCHANGED <<simVars, printed, jsonVars>>

PrizeNext == CheckRow \/ KeepHighest

PrizeSpec == PrizeInit /\ [][PrizeNext]_vars

\* ------------------------------------------------------- __init__ and spin
\* Mutant: a strip as long as the window is rejected too.
RECURSIVE FirstShortInclusive(_, _)
FirstShortInclusive(rs, i) ==
    IF i >= Len(rs) THEN None
    ELSE IF Len(rs[i + 1]) <= rows THEN i
    ELSE FirstShortInclusive(rs, i + 1)

RECURSIVE FirstShort(_, _)
FirstShort(rs, i) ==
    IF i >= Len(rs) THEN None
    ELSE IF Len(rs[i + 1]) < rows THEN i
    ELSE FirstShort(rs, i + 1)

cols == Len(reels)

\* Every list [random.randint(0, len(reel) - 1) for reel in rs[1..n]] can be.
RECURSIVE StopChoices(_, _)
StopChoices(rs, n) ==
    IF n = 0 THEN { <<>> }
    ELSE { Append(sp, x) : sp \in StopChoices(rs, n - 1), x \in 0..(Len(rs[n]) - 1) }

\* Mutant: the window does not wrap around the end of the strip.
PosNoWrap(stop, row, reel) == stop + row

Pos(stop, row, reel) == (stop + row) % Len(reel)

Init ==
    /\ pc = "new"
    /\ reels \in ReelConfigs
    /\ error = None /\ stop_positions = <<>>
    /\ result_grid = <<>> /\ prizes = <<>>
    /\ row_results = <<>> /\ all_prizes = <<>> /\ max_prizes = <<>>
    /\ symbols = <<>>
    /\ current_symbol = None /\ current_count = 0 /\ wild_count = 0
    /\ sequences = <<>> /\ row_prizes = <<>>
    /\ NoSimulation /\ NoJsonCall

Construct ==
    /\ pc = "new"
    /\ error' = FirstShort(reels, 0)
    /\ pc' = IF error' = None THEN "ready" ELSE "ValueError"
    /\ UNCHANGED <<reels, stop_positions, result_grid, prizes>>
    /\ UNCHANGED prizeVars /\ UNCHANGED scanVars
    /\ UNCHANGED <<simVars, printed, jsonVars>>

\* spin reads self.reels and writes nothing of the simulator, so a further
\* call behaves as the first one does; one call per simulator is explored.
Spin ==
    /\ pc = "ready"
    /\ \E sp \in StopChoices(reels, cols) :
         /\ stop_positions' = sp
         /\ IF \A row \in 0..(rows - 1), col \in 1..cols :
                  Pos(sp[col], row, reels[col]) \in 0..(Len(reels[col]) - 1)
            THEN /\ result_grid' =
                      [r \in 1..rows |->
                          [col \in 1..cols |->
                              reels[col][Pos(sp[col], r - 1, reels[col]) + 1]]]
                 /\ prizes' = CalculatePrizes(result_grid')
                 /\ pc' = "spun"
            ELSE /\ pc' = "IndexError"
                 /\ UNCHANGED <<result_grid, prizes>>
    /\ UNCHANGED <<reels, error>>
    /\ UNCHANGED prizeVars /\ UNCHANGED scanVars
    /\ UNCHANGED <<simVars, printed, jsonVars>>

Next == Construct \/ Spin

Spec == Init /\ [][Next]_vars

\* ----------------------------------------------------------- run_simulation
\* The simulator whose runs are explored: four reels, the last one holding a
\* WILD, whose spins return seven different prize lists (none, one prize, two
\* prizes in either order, amounts 3 and 4).
SimReels == << <<1, 1, 12>>, <<1, 1, 12>>, <<1, 1, 12>>, <<1, WILD, 12>> >>

SpinGrid(rs, sp) ==
    [r \in 1..rows |->
        [col \in 1..Len(rs) |-> rs[col][Pos(sp[col], r - 1, rs[col]) + 1]]]

\* Every prize list one spin of the reels rs can return.
SpinPrizes(rs) ==
    { CalculatePrizes(SpinGrid(rs, sp)) : sp \in StopChoices(rs, Len(rs)) }

SimSpinPrizes == SpinPrizes(SimReels)

\* Mutant: the counter is set to one instead of incremented.
DefaultSetOne(d, k) == DictSet(d, k, 1)

\* d[k] += 1 on a defaultdict(int).
DefaultIncrement(d, k) ==
    DictSet(d, k, (IF DictHas(d, k) THEN DictGet(d, k) ELSE 0) + 1)

\* Mutant: the symbol counter of every other symbol is forgotten.
CountPrizeDropsOthers(st, prize) ==
    [st EXCEPT !.prize_combinations = DefaultIncrement(@, <<prize.amount, prize.symbol>>),
               !.amount_counts = DefaultIncrement(@, prize.amount),
               !.symbol_counts =
                   DefaultIncrement(SelectSeq(@, LAMBDA e : e.key = prize.symbol),
                                    prize.symbol)]

\* The body of "for prize in prizes".
CountPrize(st, prize) ==
    [st EXCEPT !.prize_combinations = DefaultIncrement(@, <<prize.amount, prize.symbol>>),
               !.amount_counts = DefaultIncrement(@, prize.amount),
               !.symbol_counts = DefaultIncrement(@, prize.symbol)]

RECURSIVE CountPrizes(_, _, _)
CountPrizes(st, plist, n) ==
    IF n = 0 THEN st ELSE CountPrize(CountPrizes(st, plist, n - 1), plist[n])

\* Mutant: only a winning spin is counted as a spin.
AccumulateWinsOnly(st, plist) ==
    IF plist # <<>>
    THEN CountPrizes([st EXCEPT !.total_spins = @ + 1,
                                !.total_prizes = @ + Len(plist)], plist, Len(plist))
    ELSE st

\* Mutant: a winning spin adds one to total_prizes, however many prizes it won.
AccumulateOnePerSpin(st, plist) ==
    IF plist # <<>>
    THEN CountPrizes([st EXCEPT !.total_spins = @ + 1,
                                !.total_prizes = @ + 1], plist, Len(plist))
    ELSE [st EXCEPT !.total_spins = @ + 1]

\* What one iteration of the trial loop does to stats with the spin's prizes.
Accumulate(st, plist) ==
    IF plist # <<>>
    THEN CountPrizes([st EXCEPT !.total_spins = @ + 1,
                                !.total_prizes = @ + Len(plist)], plist, Len(plist))
    ELSE [st EXCEPT !.total_spins = @ + 1]

\* The statistics run_simulation builds from the prize lists of its spins.
RECURSIVE AccumulateAll(_, _)
AccumulateAll(log, n) ==
    IF n = 0 THEN FreshStats ELSE Accumulate(AccumulateAll(log, n - 1), log[n])

\* Mutant: the loop body runs once more than asked.
LoopContinuesInclusive(i, n) == i <= n

\* "for _ in range(num_spins)" has a further iteration.
LoopContinues(i, n) == i < n

SimInit ==
    /\ pc = "idle"
    /\ reels = SimReels
    /\ error = None /\ stop_positions = <<>>
    /\ result_grid = <<>> /\ prizes = <<>>
    /\ row_results = <<>> /\ all_prizes = <<>> /\ max_prizes = <<>>
    /\ symbols = <<>>
    /\ current_symbol = None /\ current_count = 0 /\ wild_count = 0
    /\ sequences = <<>> /\ row_prizes = <<>>
    /\ NoSimulation /\ NoJsonCall

\* Mutant: the statistics live on across calls.
StartRunKeepsStats ==
    /\ pc = "idle"
    /\ \E n \in 0..MaxSpins : num_spins' = n
    /\ iteration' = 0
    /\ spin_log' = <<>>
    /\ printed' = <<>>
    /\ pc' = "running"
    /\ UNCHANGED <<stats, returned, prizes>>
    /\ UNCHANGED <<reels, error, stop_positions, result_grid>>
    /\ UNCHANGED prizeVars /\ UNCHANGED scanVars /\ UNCHANGED jsonVars

\* run_simulation(n) is called: a new stats dict is built.
StartRun ==
    /\ pc = "idle"
    /\ \E n \in 0..MaxSpins : num_spins' = n
    /\ stats' = FreshStats
    /\ iteration' = 0
    /\ spin_log' = <<>>
    /\ printed' = <<>>
    /\ pc' = "running"
    /\ UNCHANGED <<returned, prizes>>
    /\ UNCHANGED <<reels, error, stop_positions, result_grid>>
    /\ UNCHANGED prizeVars /\ UNCHANGED scanVars /\ UNCHANGED jsonVars

\* One iteration of the trial loop: the print, the spin (whose grid is
\* discarded) and the update of the statistics.
Iterate ==
    /\ pc = "running"
    /\ LoopContinues(iteration, num_spins)
    /\ printed' = Append(printed, <<"iteration", iteration>>)
    /\ \E won \in SimSpinPrizes :
         /\ prizes' = won
         /\ spin_log' = Append(spin_log, won)
         /\ stats' = Accumulate(stats, won)
    /\ iteration' = iteration + 1
    /\ UNCHANGED <<pc, num_spins, returned>>
    /\ UNCHANGED <<reels, error, stop_positions, result_grid>>
    /\ UNCHANGED prizeVars /\ UNCHANGED scanVars /\ UNCHANGED jsonVars

\* The loop is over: stats is returned to the caller.
ReturnStats ==
    /\ pc = "running"
    /\ ~LoopContinues(iteration, num_spins)
    /\ returned' = <<stats>>
    /\ pc' = "idle"
    /\ UNCHANGED <<num_spins, iteration, stats, spin_log, printed, prizes>>
    /\ UNCHANGED <<reels, error, stop_positions, result_grid>>
    /\ UNCHANGED prizeVars /\ UNCHANGED scanVars /\ UNCHANGED jsonVars

SimNext == StartRun \/ Iterate \/ ReturnStats

SimSpec == SimInit /\ [][SimNext]_vars

\* All three parts together: every operation of the simulator's core.
AllSpec == (ScanInit \/ PrizeInit \/ Init) /\ [][ScanNext \/ PrizeNext \/ Next]_vars

\* The simulator's core with the simulation runs: every state of the scan,
\* of the prize resolution, of construction and spin, and of run_simulation.
CoreSpec ==
    (ScanInit \/ PrizeInit \/ Init \/ SimInit)
        /\ [][ScanNext \/ PrizeNext \/ Next \/ SimNext]_vars

\* The report's name of a symbol.
symbol_name(symbol) == IF symbol = 0 THEN "WILD" ELSE ToString(symbol)

\* ================================================== formatter_python.py
\* Texts over a small JSON alphabet: arrays of numbers written with digit 1.
JsonChars == {"[", "]", "1", ","}

JsonTexts == SeqsUpTo(JsonChars, MaxJsonLen)

\* What a caller may pass as json_string: a str, or an object that is no text.
JsonArgs ==
    { [type |-> "str", text |-> t] : t \in JsonTexts }
        \cup { [type |-> "NoneType", text |-> <<>>] }

\* What input_path may name: a readable file with some text, or no file.
JsonFiles ==
    { [type |-> "file", text |-> t] : t \in JsonTexts }
        \cup { [type |-> "missing file", text |-> <<>>] }

\* output_path: left out, a path that can be written, one that cannot.
OutputPaths == {"None", "out.json", "/no/such/dir/out.json"}

NoValue == [t |-> "none", digits |-> <<>>, items |-> <<>>]

Number(ds) == [t |-> "num", digits |-> ds, items |-> <<>>]

Array(vs) == [t |-> "arr", digits |-> <<>>, items |-> vs]

Parsed(v, next) == [ok |-> TRUE, val |-> v, pos |-> next]

ParseFails == [ok |-> FALSE, val |-> NoValue, pos |-> 0]

RECURSIVE ScanNumber(_, _)
ScanNumber(txt, i) ==
    IF i <= Len(txt) /\ txt[i] = "1" THEN ScanNumber(txt, i + 1) ELSE i

\* The decoder of json.loads on this alphabet: value := number | array.
RECURSIVE ParseValue(_, _), ParseElems(_, _, _)
ParseValue(txt, i) ==
    IF i > Len(txt) THEN ParseFails
    ELSE IF txt[i] = "1"
         THEN LET next == ScanNumber(txt, i)
              IN  Parsed(Number(SubSeq(txt, i, next - 1)), next)
    ELSE IF txt[i] = "["
         THEN IF i + 1 <= Len(txt) /\ txt[i + 1] = "]"
              THEN Parsed(Array(<<>>), i + 2)
              ELSE ParseElems(txt, i + 1, <<>>)
    ELSE ParseFails

ParseElems(txt, i, acc) ==
    LET r == ParseValue(txt, i)
    IN  IF ~r.ok \/ r.pos > Len(txt) THEN ParseFails
        ELSE IF txt[r.pos] = "," THEN ParseElems(txt, r.pos + 1, Append(acc, r.val))
        ELSE IF txt[r.pos] = "]" THEN Parsed(Array(Append(acc, r.val)), r.pos + 1)
        ELSE ParseFails

\* json.loads: the decoded value, or the exception it raises.
Loads(arg) ==
    IF arg.type = "missing file" THEN [exc |-> "FileNotFoundError", val |-> NoValue]
    ELSE IF arg.type = "NoneType" THEN [exc |-> "TypeError", val |-> NoValue]
    ELSE LET r == ParseValue(arg.text, 1)
         IN  IF r.ok /\ r.pos = Len(arg.text) + 1
             THEN [exc |-> "", val |-> r.val]
             ELSE [exc |-> "JSONDecodeError", val |-> NoValue]

RECURSIVE Indent(_)
Indent(level) ==
    IF level = 0 THEN <<>> ELSE <<" ", " ", " ", " ">> \o Indent(level - 1)

\* json.dumps(value, indent=4): one item per line, nested by four spaces.
RECURSIVE Dumps(_, _), DumpItems(_, _, _)
Dumps(v, level) ==
    IF v.t = "num" THEN v.digits
    ELSE IF v.items = <<>> THEN <<"[", "]">>
    ELSE <<"[">> \o DumpItems(v.items, 1, level + 1)
               \o <<"\n">> \o Indent(level) \o <<"]">>

DumpItems(items, j, level) ==
    <<"\n">> \o Indent(level) \o Dumps(items[j], level)
        \o (IF j < Len(items) THEN <<",">> \o DumpItems(items, j + 1, level) ELSE <<>>)

Returns(v) == [kind |-> "return", value |-> v]

Raises(exc) == [kind |-> "raise", value |-> <<exc>>]

NoneValue == <<"None">>

InvalidJson(exc) == <<"Invalid JSON: ", exc>>

\* format_json_string: only json.JSONDecodeError is caught.
format_json_string(json_string) ==
    LET parsed == Loads(json_string)
    IN  IF parsed.exc = "" THEN Returns(Dumps(parsed.val, 0))
        ELSE IF parsed.exc = "JSONDecodeError" THEN Returns(InvalidJson(parsed.exc))
        ELSE Raises(parsed.exc)

Stdout(text) == [to |-> "stdout", text |-> text]

\* What format_json_file writes: every Exception ends as a printed line.
format_json_file(file, output_path) ==
    LET data == Loads(file)
        formatted_json == Dumps(data.val, 0)
    IN  IF data.exc # "" THEN << Stdout(<<"Error: ", data.exc>>) >>
        ELSE IF output_path = "None" THEN << Stdout(formatted_json) >>
        ELSE IF output_path = "out.json"
             THEN << [to |-> output_path, text |-> formatted_json],
                     Stdout(<<"Formatted JSON written to ", output_path>>) >>
        ELSE << Stdout(<<"Error: ", "FileNotFoundError">>) >>

JsonInit ==
    /\ pc = "caller"
    /\ reels = <<>>
    /\ error = None /\ stop_positions = <<>>
    /\ result_grid = <<>> /\ prizes = <<>>
    /\ row_results = <<>> /\ all_prizes = <<>> /\ max_prizes = <<>>
    /\ symbols = <<>>
    /\ current_symbol = None /\ current_count = 0 /\ wild_count = 0
    /\ sequences = <<>> /\ row_prizes = <<>>
    /\ NoSimulation /\ NoJsonCall

JsonFrame == <<reels, error, stop_positions, result_grid, prizes, printed>>

\* The caller calls format_json_string(json_string).
FormatJsonString ==
    /\ pc = "caller"
    /\ \E json_string \in JsonArgs :
          /\ json_call' = << [fn |-> "format_json_string", arg |-> json_string,
                              output_path |-> "None"] >>
          /\ json_outcome' = << format_json_string(json_string) >>
    /\ json_written' = <<>>
    /\ pc' = "called"
    /\ UNCHANGED JsonFrame /\ UNCHANGED simVars
    /\ UNCHANGED prizeVars /\ UNCHANGED scanVars

\* The caller calls format_json_file(input_path, output_path).
FormatJsonFile ==
    /\ pc = "caller"
    /\ \E file \in JsonFiles, output_path \in OutputPaths :
          /\ json_call' = << [fn |-> "format_json_file", arg |-> file,
                              output_path |-> output_path] >>
          /\ json_written' = format_json_file(file, output_path)
    /\ json_outcome' = << Returns(NoneValue) >>
    /\ pc' = "called"
    /\ UNCHANGED JsonFrame /\ UNCHANGED simVars
    /\ UNCHANGED prizeVars /\ UNCHANGED scanVars

\* The call returned: its caller goes on, and nothing of the call remains.
CallerContinues ==
    /\ pc = "called"
    /\ json_outcome[1].kind = "return"
    /\ json_call' = <<>> /\ json_outcome' = <<>> /\ json_written' = <<>>
    /\ pc' = "caller"
    /\ UNCHANGED JsonFrame /\ UNCHANGED simVars
    /\ UNCHANGED prizeVars /\ UNCHANGED scanVars

JsonNext == FormatJsonString \/ FormatJsonFile \/ CallerContinues

JsonSpec == JsonInit /\ [][JsonNext]_vars

\* ================================================================== claims
Range(q) == { q[j] : j \in 1..Len(q) }

Max(S) == CHOOSE m \in S : \A x \in S : x <= m

DistinctSymbols(plist) ==
    \A j, k \in 1..Len(plist) : plist[j].symbol = plist[k].symbol => j = k

Prize(s, n) == [symbol |-> s, amount |-> n]

Intervals(n) == { p \in (1..n) \X (1..n) : p[1] <= p[2] }

\* ---- C1
RecordedSymbols ==
    { e.symbol : e \in UNION { Range(row_results[r]) : r \in 1..Len(row_results) } }

RecordedCounts(s) ==
    { e.amount : e \in { f \in UNION { Range(row_results[r]) : r \in 1..Len(row_results) } :
                           f.symbol = s } }

\* C1: _calculate_prizes returns at most one prize per symbol, and its prizes
\* are exactly, for each symbol _find_sequences recorded in some row, that
\* symbol with the largest count recorded for it over all rows (hence the
\* empty list when no row records anything).
C1_HighestPrizePerSymbol ==
    pc = "resolved" =>
        /\ DistinctSymbols(prizes)
        /\ Range(prizes) = { Prize(s, Max(RecordedCounts(s))) : s \in RecordedSymbols }

\* Two rows record the same symbol with different counts, the larger one
\* first, and a second symbol is recorded as well.
C1_Witness ==
    /\ pc = "resolved"
    /\ Len(prizes) >= 2
    /\ \E r1, r2 \in 1..Len(row_results) :
         /\ r1 < r2
         /\ \E e1 \in Range(row_results[r1]), e2 \in Range(row_results[r2]) :
              e1.symbol = e2.symbol /\ e1.amount > e2.amount

\* ---- C2
OnlyPlain(row) == \A k \in 1..Len(row) : row[k] \in PlainSymbols

LongestRun(row, s) ==
    LET lens == { p[2] - p[1] + 1 :
                    p \in { q \in Intervals(Len(row)) : \A k \in q[1]..q[2] : row[k] = s } }
    IN  IF lens = {} THEN 0 ELSE Max(lens)

ClassicRuns(row) ==
    { Prize(s, LongestRun(row, s)) : s \in { t \in Range(row) : LongestRun(row, t) >= 3 } }

\* C2: on a row without WILD and without PREMIUM symbols the scan returns,
\* once per symbol, the length of the symbol's longest run of equal adjacent
\* symbols, for exactly the symbols whose longest run is at least 3.
C2_ClassicRunLengths ==
    (pc = "returned" /\ OnlyPlain(symbols)) =>
        /\ DistinctSymbols(row_prizes)
        /\ Range(row_prizes) = ClassicRuns(symbols)

\* A plain row in which symbol 1 has a run of 4 and, later, a run of 3.
C2_Witness ==
    /\ pc = "returned"
    /\ symbols = <<1, 1, 1, 1, 2, 1, 1, 1>>
    /\ row_prizes = <<Prize(1, 4)>>

\* ---- C3
\* k wilds followed by m >= 1 copies of the plain symbol a, and nothing else.
LeadingWilds(row, k, a) ==
    /\ k < Len(row)
    /\ \A j \in 1..Len(row) : row[j] = (IF j <= k THEN WILD ELSE a)

\* C3: a row of k >= 0 wilds followed only by m >= 1 copies of one plain
\* symbol A yields exactly {A: k+m} when k+m >= 3 and nothing otherwise.
C3_LeadingWildsCredited ==
    (pc = "returned" /\ Len(symbols) >= 1) =>
        LET a == symbols[Len(symbols)]
        IN  a \in PlainSymbols =>
                \A k \in 0..(Len(symbols) - 1) :
                    LeadingWilds(symbols, k, a) =>
                        row_prizes = (IF Len(symbols) >= 3
                                      THEN <<Prize(a, Len(symbols))>> ELSE <<>>)

C3_Witness ==
    /\ pc = "returned"
    /\ symbols = <<WILD, WILD, 1, 1, 1>>
    /\ row_prizes = <<Prize(1, 5)>>

\* ---- C4
CountOf(row, a, b, s) == Cardinality({ k \in a..b : row[k] = s })

\* a..b is a maximal stretch of the row holding only p and WILD.
PremiumStretch(row, a, b, p) ==
    /\ \A k \in a..b : row[k] \in {p, WILD}
    /\ a = 1 \/ row[a - 1] \notin {p, WILD}
    /\ b = Len(row) \/ row[b + 1] \notin {p, WILD}

C5_PlainCountIsContiguousRun ==
    pc = "returned" =>
        \A e \in Range(row_prizes) :
            e.symbol \in PlainSymbols =>
                \E a \in 1..Len(symbols) :
                    /\ a + e.amount - 1 <= Len(symbols)
                    /\ \A k \in a..(a + e.amount - 1) : symbols[k] \in {e.symbol, WILD}
                    /\ \E k \in a..(a + e.amount - 1) : symbols[k] = e.symbol

\* ---- C6
\* plain a, then k wilds, then plain b, and nothing else.
WildsBetween(row, a, k, b) ==
    /\ Len(row) = k + 2
    /\ row[1] = a /\ row[k + 2] = b
    /\ \A j \in 2..(k + 1) : row[j] = WILD

\* C6: for a row [A, k WILDs, B] with plain A # B and k >= 2 the scan returns
\* both A -> 1+k and B -> 1+k, so the counts add up to more than the row length.
C6_WildsCountedTwice ==
    (pc = "returned" /\ Len(symbols) >= 4) =>
        LET a == symbols[1]
            b == symbols[Len(symbols)]
            k == Len(symbols) - 2
        IN  (a \in PlainSymbols /\ b \in PlainSymbols /\ a # b
               /\ WildsBetween(symbols, a, k, b)) =>
                /\ row_prizes = <<Prize(a, 1 + k), Prize(b, 1 + k)>>
                /\ row_prizes[1].amount + row_prizes[2].amount > Len(symbols)

C6_Witness ==
    /\ pc = "returned"
    /\ symbols = <<1, WILD, WILD, WILD, 2>>
    /\ row_prizes = <<Prize(1, 4), Prize(2, 4)>>

\* ---- C7
AllAtLeastThree(plist) == \A j \in 1..Len(plist) : plist[j].amount >= 3

\* C7: every count in the scan's result is at least 3, an entry enters or
\* changes in the result only when a run of its symbol closes with count >= 3
\* (so a symbol without such a run is absent), and every prize that
\* _calculate_prizes and spin return has amount >= 3.
C7_OnlyQualifyingRuns ==
    [][ /\ \A j \in 1..Len(sequences') : sequences'[j].value >= 3
        /\ AllAtLeastThree(row_prizes')
        /\ \A r \in 1..Len(row_results') : AllAtLeastThree(row_results'[r])
        /\ AllAtLeastThree(all_prizes')
        /\ AllAtLeastThree(prizes')
        /\ sequences' # sequences =>
             /\ current_symbol # None
             /\ current_count >= 3
             /\ DictHas(sequences', current_symbol)
             /\ DictGet(sequences', current_symbol) = current_count
             /\ \A j \in 1..Len(sequences) : sequences[j].key # current_symbol =>
                    sequences'[j] = sequences[j]
             /\ Len(sequences') <= Len(sequences) + 1
        /\ pc' = "returned" => row_prizes' = ToPrizes(sequences')
      ]_vars

\* A row whose first run closes short of 3 and whose second run qualifies.
C7_Witness ==
    /\ pc = "returned"
    /\ symbols = <<1, 1, 2, 2, 2>>
    /\ row_prizes = <<Prize(2, 3)>>

\* ---- C8
\* C8: on a row made only of WILDs (the empty row included) the current symbol
\* is never set, the current count stays 0 and the result is empty.
C8_AllWildsYieldNothing ==
    (\A k \in 1..Len(symbols) : symbols[k] = WILD) =>
        /\ current_symbol = None
        /\ current_count = 0
        /\ sequences = <<>>
        /\ row_prizes = <<>>

C8_Witness ==
    /\ pc = "returned"
    /\ symbols = <<WILD, WILD, WILD, WILD>>
    /\ row_prizes = <<>>

\* ---- C9
\* C9: after a spin of a validly constructed simulator each stop position lies
\* in [0, strip length) of its reel, the grid has 3 rows of one cell per reel
\* with grid[r][c] = reels[c][(stop[c] + r) mod len(reels[c])], every cell is a
\* symbol of its reel's strip, and no spin fails on an index.
C9_GridIsCircularWindow ==
    /\ pc # "IndexError"
    /\ pc = "spun" =>
         /\ Len(stop_positions) = Len(reels)
         /\ \A c \in 1..Len(reels) :
              /\ stop_positions[c] >= 0
              /\ stop_positions[c] < Len(reels[c])
         /\ Len(result_grid) = 3
         /\ \A r \in 0..2 :
              /\ Len(result_grid[r + 1]) = Len(reels)
              /\ \A c \in 1..Len(reels) :
                   /\ result_grid[r + 1][c] =
                        reels[c][((stop_positions[c] + r) % Len(reels[c])) + 1]
                   /\ result_grid[r + 1][c] \in Range(reels[c])

\* A spin of three reels whose window wraps around the end of a strip that
\* holds both symbols.
C9_Witness ==
    /\ pc = "spun"
    /\ Len(reels) = 3
    /\ \E c \in 1..Len(reels) :
         /\ stop_positions[c] + 2 >= Len(reels[c])
         /\ Cardinality(Range(reels[c])) = 2

\* ---- C10
TooShort(rs) == { c \in 0..(Len(rs) - 1) : Len(rs[c + 1]) < 3 }

\* C10: construction fails exactly when some strip has fewer than 3 symbols;
\* the failure names the lowest offending index, nothing can be done with the
\* simulator afterwards, and construction succeeds when every strip has at
\* least 3 symbols.
C10_ShortStripRejected ==
    [][ /\ pc' # "new" => (pc' = "ValueError" <=> TooShort(reels') # {})
        /\ pc' = "ValueError" =>
             /\ error' \in TooShort(reels')
             /\ \A c \in TooShort(reels') : error' <= c
        /\ pc' \in {"ready", "spun"} => error' = None
        /\ pc # "ValueError"
      ]_vars

\* Construction failed although the first reel is long enough; two later
\* reels are too short and the lower index is named.
C10_Witness ==
    /\ pc = "ValueError"
    /\ Len(reels) = 3
    /\ Len(reels[1]) = 3 /\ Len(reels[2]) < 3 /\ Len(reels[3]) < 3
    /\ error = 1

\* ---- C11
\* Where the prizes of the logged spins are: <<spin, index in its prize list>>.
Positions(log) ==
    UNION { { <<i, j>> : j \in 1..Len(log[i]) } : i \in 1..Len(log) }

ComboKey(prize) == <<prize.amount, prize.symbol>>
AmountKey(prize) == prize.amount
SymbolKey(prize) == prize.symbol

\* The dict d counts, per key, the logged prizes with that key, and holds no
\* other key.
CountsPrizesBy(d, log, Key(_)) ==
    /\ \A j, k \in 1..Len(d) : d[j].key = d[k].key => j = k
    /\ \A j \in 1..Len(d) :
         /\ d[j].value >= 1
         /\ d[j].value =
              Cardinality({ q \in Positions(log) : Key(log[q[1]][q[2]]) = d[j].key })
    /\ \A q \in Positions(log) : DictHas(d, Key(log[q[1]][q[2]]))

\* C11: when run_simulation(n) has returned, total_spins = n, total_prizes is
\* the sum of the sizes of the n spins' prize lists, and each of the three
\* counters holds, per key, one count for every prize won with that key.
C11_StatisticsCountEverySpin ==
    (pc = "idle" /\ returned # <<>>) =>
        LET st == returned[1]
        IN  /\ Len(spin_log) = num_spins
            /\ st.total_spins = num_spins
            /\ st.total_prizes = Cardinality(Positions(spin_log))
            /\ CountsPrizesBy(st.prize_combinations, spin_log, ComboKey)
            /\ CountsPrizesBy(st.amount_counts, spin_log, AmountKey)
            /\ CountsPrizesBy(st.symbol_counts, spin_log, SymbolKey)

\* A run of two spins has returned: one spin won nothing, the other two prizes.
C11_Witness ==
    /\ pc = "idle" /\ returned # <<>>
    /\ num_spins = 2
    /\ spin_log[1] = <<>>
    /\ Len(spin_log[2]) = 2
    /\ returned[1].total_spins = 2
    /\ returned[1].total_prizes = 2

\* ---- C12
\* C12: run_simulation(0) spins no reel and returns total_spins = 0,
\* total_prizes = 0 and three counters without a non-zero entry.
C12_ZeroSpinsZeroStatistics ==
    (pc = "idle" /\ returned # <<>> /\ num_spins = 0) =>
        LET st == returned[1]
        IN  /\ spin_log = <<>>
            /\ iteration = 0
            /\ st.total_spins = 0
            /\ st.total_prizes = 0
            /\ \A j \in 1..Len(st.prize_combinations) : st.prize_combinations[j].value = 0
            /\ \A j \in 1..Len(st.amount_counts) : st.amount_counts[j].value = 0
            /\ \A j \in 1..Len(st.symbol_counts) : st.symbol_counts[j].value = 0

C12_Witness ==
    /\ pc = "idle" /\ returned # <<>>
    /\ num_spins = 0
    /\ returned[1] = FreshStats

\* ---- C13
Keys(d) == { d[j].key : j \in 1..Len(d) }

CounterAt(d, k) == IF DictHas(d, k) THEN DictGet(d, k) ELSE 0

SameCounters(d, e) ==
    \A k \in Keys(d) \cup Keys(e) : CounterAt(d, k) = CounterAt(e, k)

SumOfCounters(d, e, f) ==
    \A k \in Keys(d) \cup Keys(e) \cup Keys(f) :
        CounterAt(d, k) = CounterAt(e, k) + CounterAt(f, k)

SameStatistics(a, b) ==
    /\ a.total_spins = b.total_spins
    /\ a.total_prizes = b.total_prizes
    /\ SameCounters(a.prize_combinations, b.prize_combinations)
    /\ SameCounters(a.amount_counts, b.amount_counts)
    /\ SameCounters(a.symbol_counts, b.symbol_counts)

SumOfStatistics(a, b, c) ==
    /\ a.total_spins = b.total_spins + c.total_spins
    /\ a.total_prizes = b.total_prizes + c.total_prizes
    /\ SumOfCounters(a.prize_combinations, b.prize_combinations, c.prize_combinations)
    /\ SumOfCounters(a.amount_counts, b.amount_counts, c.amount_counts)
    /\ SumOfCounters(a.symbol_counts, b.symbol_counts, c.symbol_counts)

Reorderings(n) ==
    { f \in [1..n -> 1..n] : \A i, j \in 1..n : f[i] = f[j] => i = j }

\* C13: the statistics accumulated from a sequence of per-spin prize lists are
\* the same counters for every permutation of the sequence, and are the
\* element-wise sum of the statistics of the two batches of any split of it.
C13_AccumulationAdditive ==
    LET n == Len(spin_log)
    IN  /\ \A f \in Reorderings(n) :
             SameStatistics(stats, AccumulateAll([i \in 1..n |-> spin_log[f[i]]], n))
        /\ \A k \in 0..n :
             SumOfStatistics(stats,
                             AccumulateAll(SubSeq(spin_log, 1, k), k),
                             AccumulateAll(SubSeq(spin_log, k + 1, n), n - k))

\* Two spins won the same two prizes in opposite orders.
C13_Witness ==
    /\ Len(spin_log) = 2
    /\ Len(spin_log[1]) = 2
    /\ spin_log[2] = <<spin_log[1][2], spin_log[1][1]>>
    /\ stats.total_prizes = 4

\* ---- C14
\* C14: every call of run_simulation starts from a zeroed statistics record,
\* the record it returns counts the spins of that call only, and a call never
\* changes the record an earlier call returned.
C14_NoStatisticsAcrossRuns ==
    [][ /\ (pc = "idle" /\ pc' = "running") =>
              (stats' = FreshStats /\ returned' = returned)
        /\ (pc = "running" /\ pc' = "running") => returned' = returned
        /\ (pc = "running" /\ pc' = "idle") =>
              /\ returned'[1].total_spins = num_spins
              /\ returned'[1] = AccumulateAll(spin_log, Len(spin_log))
      ]_vars

\* A second call is under way after a call that returned two spins.
C14_Witness ==
    /\ pc = "running"
    /\ returned # <<>>
    /\ returned[1].total_spins = 2 /\ returned[1].total_prizes >= 2
    /\ num_spins = 2 /\ iteration = 1
    /\ stats.total_spins = 1

\* ---- C18
\* C18: the trial loop writes nothing to any output stream: from the first
\* spin to the return of the statistics the call has produced no output.
C18_NoOutputInTrialLoop ==
    pc \in {"running", "idle"} => printed = <<>>

\* ---- C19
NeverShrinks(d, e) ==
    \A j \in 1..Len(d) : DictHas(e, d[j].key) /\ DictGet(e, d[j].key) >= d[j].value

\* C19: every iteration of the trial loop raises total_spins by exactly 1 and
\* lowers neither total_prizes nor any entry of the three counters, and
\* removes no entry.
C19_CountersMonotonic ==
    [][ (pc = "running" /\ pc' = "running") =>
          /\ stats'.total_spins = stats.total_spins + 1
          /\ stats'.total_prizes >= stats.total_prizes
          /\ NeverShrinks(stats.prize_combinations, stats'.prize_combinations)
          /\ NeverShrinks(stats.amount_counts, stats'.amount_counts)
          /\ NeverShrinks(stats.symbol_counts, stats'.symbol_counts)
      ]_vars

\* A spin that won one prize followed a spin that won two.
C19_Witness ==
    /\ pc = "running"
    /\ iteration = 2
    /\ Len(spin_log[1]) = 2 /\ Len(spin_log[2]) = 1
    /\ Len(stats.symbol_counts) = 2

\* ---- C20
RECURSIVE SumValues(_, _)
SumValues(d, n) == IF n = 0 THEN 0 ELSE SumValues(d, n - 1) + d[n].value

Total(d) == SumValues(d, Len(d))

RollUpsAgree(st) ==
    /\ Total(st.prize_combinations) = st.total_prizes
    /\ Total(st.amount_counts) = st.total_prizes
    /\ Total(st.symbol_counts) = st.total_prizes
    /\ \A a \in Keys(st.amount_counts) \cup { k[1] : k \in Keys(st.prize_combinations) } :
         CounterAt(st.amount_counts, a) =
            Total(SelectSeq(st.prize_combinations, LAMBDA e : e.key[1] = a))
    /\ \A y \in Keys(st.symbol_counts) \cup { k[2] : k \in Keys(st.prize_combinations) } :
         CounterAt(st.symbol_counts, y) =
            Total(SelectSeq(st.prize_combinations, LAMBDA e : e.key[2] = y))

\* C20: at every iteration boundary of run_simulation the entries of
\* prize_combinations, of amount_counts and of symbol_counts each add up to
\* total_prizes, amount_counts[a] is the sum over symbols of
\* prize_combinations[(a, s)] and symbol_counts[s] the sum over amounts.
C20_RollUpsAgreeWithTotal ==
    pc \in {"running", "idle"} =>
        /\ RollUpsAgree(stats)
        /\ \A j \in 1..Len(returned) : RollUpsAgree(returned[j])

\* Three prizes so far, of two amounts and two symbols.
C20_Witness ==
    /\ pc = "running"
    /\ stats.total_prizes = 3
    /\ Len(stats.amount_counts) = 2
    /\ Len(stats.symbol_counts) = 2
    /\ Len(stats.prize_combinations) >= 2

\* ---- C16
\* k wilds, then j copies of the premium symbol p, then m copies of the plain
\* symbol a, and nothing else.
WildsPremiumPlain(row, k, j, m, p, a) ==
    /\ Len(row) = k + j + m
    /\ \A i \in 1..Len(row) :
         row[i] = (IF i <= k THEN WILD ELSE IF i <= k + j THEN p ELSE a)

\* C16: when a premium symbol other than the current symbol is consumed, the
\* run it opens has count exactly 1 and no wild stays pending, however many
\* were; so the wilds before a premium run are credited neither to it nor to
\* the run after it ([WILD, WILD, 12, A, A] with plain A returns nothing).
C16_PremiumTakesNoPendingWilds ==
    [][ /\ \A p \in PREMIUM_SYMBOLS :
             (symbols' = Append(symbols, p) /\ current_symbol # p) =>
                 /\ current_symbol' = p
                 /\ current_count' = 1
                 /\ wild_count' = 0
        /\ ( /\ pc' = "returned"
             /\ Len(symbols') >= 3
             /\ symbols'[1] = WILD
             /\ symbols'[Len(symbols')] \in PlainSymbols ) =>
             LET n == Len(symbols')
                 a == symbols'[n]
             IN  \A k \in 1..(n - 2) :
                    symbols'[k + 1] \in PREMIUM_SYMBOLS =>
                       \A j \in 1..(n - k - 1) :
                          WildsPremiumPlain(symbols', k, j, n - k - j, symbols'[k + 1], a) =>
                             row_prizes' =
                                (IF j >= 3 THEN <<Prize(symbols'[k + 1], j)>> ELSE <<>>)
                                \o (IF n - k - j >= 3 THEN <<Prize(a, n - k - j)>> ELSE <<>>)
      ]_vars

C16_Witness ==
    /\ pc = "returned"
    /\ symbols = <<WILD, WILD, 12, 1, 1>>
    /\ row_prizes = <<>>

\* ---- C17
\* C17: consuming a WILD changes neither the result mapping nor the current
\* symbol; it adds one to the pending wild count and, only when the current
\* symbol is set and not premium, one to the current count.
C17_WildNeverClosesRun ==
    [][ symbols' = Append(symbols, WILD) =>
          /\ sequences' = sequences
          /\ row_prizes' = row_prizes
          /\ current_symbol' = current_symbol
          /\ wild_count' = wild_count + 1
          /\ current_count' =
               (IF current_symbol # None /\ current_symbol \notin PREMIUM_SYMBOLS
                THEN current_count + 1 ELSE current_count)
      ]_vars

\* A wild was consumed while a run of three that could be closed was active.
C17_Witness ==
    /\ pc = "scan"
    /\ symbols = <<1, 1, 1, WILD>>
    /\ current_symbol = 1 /\ current_count = 4 /\ wild_count = 1
    /\ sequences = <<>>

\* ---- C15
Undecodable(call) ==
    call.arg.type \in {"str", "file"} /\ Loads(call.arg).exc = "JSONDecodeError"

\* C15: every call of format_json_string and of format_json_file ends by
\* returning, never by raising, and a text that is not JSON is reported as
\* the returned error message string.
C15_FormatterNeverAborts ==
    json_outcome # <<>> =>
        /\ json_outcome[1].kind = "return"
        /\ Undecodable(json_call[1]) =>
              json_outcome[1].value = InvalidJson("JSONDecodeError")

\* ---- C21
SymbolsOf(plist) == { plist[j].symbol : j \in 1..Len(plist) }

\* The names the report prints for the prizes counted in st.
PrizeLabels(st) ==
    { symbol_name(k[2]) : k \in { c \in Keys(st.prize_combinations) :
                                    DictGet(st.prize_combinations, c) > 0 } }
        \cup { symbol_name(k) : k \in Keys(st.symbol_counts) }

\* C21: WILD is never the symbol of a run or of a prize: the scan's current
\* symbol is unset or not WILD, and no recorded run, no result of
\* _find_sequences, no prize of _calculate_prizes or spin and no key of
\* symbol_counts or prize_combinations has symbol WILD, so the report never
\* prints the label WILD for a prize.
C21_WildNeverARunSymbol ==
    /\ current_symbol # WILD
    /\ WILD \notin Keys(sequences)
    /\ WILD \notin SymbolsOf(row_prizes)
    /\ \A j \in 1..Len(row_results) : WILD \notin SymbolsOf(row_results[j])
    /\ WILD \notin SymbolsOf(all_prizes)
    /\ WILD \notin Keys(max_prizes)
    /\ WILD \notin SymbolsOf(prizes)
    /\ \A j \in 1..Len(spin_log) : WILD \notin SymbolsOf(spin_log[j])
    /\ \A st \in {stats} \cup Range(returned) :
          /\ WILD \notin Keys(st.symbol_counts)
          /\ \A k \in Keys(st.prize_combinations) : k[2] # WILD
          /\ "WILD" \notin PrizeLabels(st)

C21_Witness ==
    /\ pc = "returned"
    /\ symbols = <<WILD, WILD, WILD, 1>>
    /\ current_symbol = 1
    /\ row_prizes = <<Prize(1, 4)>>

\* ---- C22
Amounts(plist) == { plist[j].amount : j \in 1..Len(plist) }

\* The length of the rows the state is about: the symbols scanned so far,
\* the width of the grids resolved, or the number of reels.
RowLength ==
    IF pc \in {"scan", "returned"} THEN Len(symbols)
    ELSE IF pc \in {"rows", "resolved"} THEN GridCols
    ELSE Len(reels)

\* C22: the current count never exceeds the number of symbols consumed, so
\* every recorded count and every prize amount lies between 3 and the row
\* length (3, 4 or 5 with five columns), and in every state of
\* run_simulation no symbol has been counted more often than there were spins.
C22_CountsBoundedByRowLength ==
    /\ current_count <= Len(symbols)
    /\ \A j \in 1..Len(sequences) : sequences[j].value \in 3..Len(symbols)
    /\ Amounts(row_prizes) \subseteq 3..Len(symbols)
    /\ \A j \in 1..Len(row_results) : Amounts(row_results[j]) \subseteq 3..RowLength
    /\ Amounts(all_prizes) \subseteq 3..RowLength
    /\ Amounts(prizes) \subseteq 3..RowLength
    /\ (RowLength = 5 => Amounts(prizes) \subseteq {3, 4, 5})
    /\ \A j \in 1..Len(spin_log) : Amounts(spin_log[j]) \subseteq 3..RowLength
    /\ \A st \in {stats} \cup Range(returned) :
          /\ Keys(st.amount_counts) \subseteq 3..RowLength
          /\ \A s \in Keys(st.symbol_counts) :
                DictGet(st.symbol_counts, s) <= st.total_spins

C22_Witness ==
    /\ pc = "scan"
    /\ symbols = <<1, WILD, WILD, 1, 2>>
    /\ current_symbol = 2 /\ current_count = 3
    /\ sequences = <<[key |-> 1, value |-> 4]>>

====
